---- MODULE Spec2Model ----
(***************************************************************************)
(* A model of xmeml/iter.py: the interval primitives (Range, Ranges), the  *)
(* gain/decibel converter (Volume), the audible-range resolver             *)
(* (ClipItem.audibleframes) and the audio clip enumerator                  *)
(* (XmemlParser.iteraudioclips).                                           *)
(*                                                                         *)
(* Conventions.  A Range is the pair <<start, end>>.  Python's None is the *)
(* empty tuple and an optional number x that is present is <<x>>.  Linear  *)
(* gain and level values are integers in units of 1/10000 (so 10000 is     *)
(* unity gain); framerates are in units of 1/1000 fps.                     *)
(***************************************************************************)
EXTENDS Integers, Sequences, FiniteSets, TLC

VARIABLES
    r,          \* Ranges.r: the list of member Ranges
    framerate,  \* Ranges.framerate
    before,     \* Ranges.r as it was when the last extend was called
    arg,        \* the argument of the last Ranges.extend call
    ret,        \* what the last Ranges.extend call returned
    covered,    \* every frame of every interval handed to extend so far
    ncalls,     \* how many extend calls were made
    python,     \* the major version of the interpreter running the module
    clip,       \* a ClipItem, as ClipItem.__init__ left it, and its cached Effects
    called,     \* the clip as it was when audibleframes was last called
    threshold,  \* the threshold the caller passed to the last audibleframes call
    vols,       \* the Volume objects constructed for and by that call, with their arguments
    result,     \* the outcome of that call
    root,          \* XmemlParser.root: the sequence of the parsed document
    filelist,      \* File.filelist: the registry of File objects, by file id
    onlypureaudio, \* the argument of the iteraudioclips call
    outer,         \* iteraudioclips: which clipitem the loop over the tracks is at
    inner,         \* iteraudioclips: which clipitem the loop over a nested sequence is at, 0 outside
    yielded,       \* the ClipItems iteraudioclips has yielded so far, in order
    log,           \* the warnings logged so far
    status,        \* of the generator: "running", "done", or "raised" (an exception left it)
    loaded,        \* the outcome of the last XmemlParser(filename) call
    clips,         \* audibleranges: its dict from clip name to Ranges
    files,         \* audibleranges: its dict from clip name to File
    folded,        \* audibleranges: how many yielded clips its loop body has been run on
    scan           \* of the audibleranges call: "idle", "running", "returned", "raised"

rangesVars == <<r, framerate, before, arg, ret, covered, ncalls>>

audibleVars == <<python, clip, called, threshold, vols, result>>

enumVars == <<root, filelist, onlypureaudio, outer, inner, yielded, log, status>>

loadVars == <<loaded>>

scanVars == <<clips, files, folded, scan>>

vars == <<rangesVars, audibleVars, enumVars, loadVars, scanVars>>

None == <<>>
Some(x) == <<x>>
Val(o) == o[1]

(***************************************************************************)
(* Bounds of the model.                                                    *)
(***************************************************************************)
MaxFrame == 4       \* Ranges.extend is fed intervals over frames 0..MaxFrame
MaxInserts == 4     \* Ranges.extend is called at most this many times
MaxPos == 3         \* keyframes, inpoint and outpoint lie in 0..MaxPos
MaxKeyframes == 3   \* an audiolevels effect has at most this many keyframes
MaxItems == 3       \* a track of a document has at most this many items

(***************************************************************************)
(* getframerate(timebase, ntsc), in 1/1000 fps.                            *)
(***************************************************************************)
\* timebase is None or Some(number); the result is a pair <<fps, label>> whose
\* fps is None or Some(number), or None when the timebase is not in the table
getframerate(timebase, ntsc) ==
    IF timebase = None THEN <<None, "None">>
    ELSE IF Val(timebase) = 24
         THEN (IF ntsc = TRUE THEN <<Some(23976), "24P">> ELSE <<Some(24000), "Film">>)
    ELSE IF Val(timebase) = 25 THEN <<Some(25000), "PAL">>
    ELSE IF Val(timebase) = 30
         THEN (IF ntsc = TRUE THEN <<Some(29970), "NTSC/HD">> ELSE <<Some(30000), "Video/HD">>)
    ELSE IF Val(timebase) = 50 THEN <<Some(50000), "HD (50Hz)">>
    ELSE IF Val(timebase) = 60
         THEN (IF ntsc = TRUE THEN <<Some(59940), "HD (59.94Hz)">> ELSE <<Some(60000), "HD (60Hz)">>)
    ELSE None   \* falls off the end: the function returns None, not a tuple

(***************************************************************************)
(* class Range                                                             *)
(***************************************************************************)
Range(start, end) == <<start, end>>

\* Range.__len__
RangeLen(self) == self[2] - self[1]

\* Range.__eq__
RangeEq(self, other) == self[1] = other[1] /\ self[2] = other[2]

\* a Range.extend that takes the pair in place of what self had
RangeExtend_Replace(self, iterable) == <<iterable[1], iterable[2]>>

\* Range.extend: grow self to cover the pair
RangeExtend(self, iterable) ==
    <<IF iterable[1] < self[1] THEN iterable[1] ELSE self[1],
      IF iterable[2] > self[2] THEN iterable[2] ELSE self[2]>>

\* Range.overlaps
RangeOverlaps(self, other) ==
    \/ (other[1] <= self[1] /\ self[1] <= other[2])
    \/ (self[1] <= other[1] /\ other[1] <= self[2])

(***************************************************************************)
(* class Ranges                                                            *)
(***************************************************************************)
RECURSIVE ExtendFrom(_, _, _)
\* the loop of Ranges.extend from member i on: the first member that equals
\* otherrange ends the call, the first that overlaps it is grown in place
ExtendFrom(rs, otherrange, i) ==
    IF i > Len(rs) THEN [r |-> Append(rs, otherrange), ret |-> "True"]
    ELSE IF RangeEq(rs[i], otherrange) THEN [r |-> rs, ret |-> "None"]
    ELSE IF RangeOverlaps(rs[i], otherrange)
         THEN [r |-> [rs EXCEPT ![i] = RangeExtend(rs[i], otherrange)], ret |-> "True"]
    ELSE ExtendFrom(rs, otherrange, i + 1)

\* Ranges.extend
RangesExtend(rs, otherrange) == ExtendFrom(rs, otherrange, 1)

RECURSIVE SumLen(_, _)
SumLen(rs, i) == IF i > Len(rs) THEN 0 ELSE RangeLen(rs[i]) + SumLen(rs, i + 1)

\* Ranges.__len__
RangesLen(rs) == SumLen(rs, 1)

\* Ranges.seconds: float(len(self)) / self.framerate, as the fraction
\* <<numerator, denominator>> in seconds (the framerate is in 1/1000 fps)
RangesSeconds(rs, fr) == <<RangesLen(rs) * 1000, fr>>

(***************************************************************************)
(* The Ranges collection under a sequence of extend calls.                 *)
(***************************************************************************)
Frames == 0 .. MaxFrame

\* the arguments of extend: every Range with start <= end
InputRanges == {rg \in Frames \X Frames : rg[1] <= rg[2]}

\* the framerates getframerate can hand to Ranges(framerate=...)
Framerates == {Val(getframerate(Some(tb), n)[1]) : tb \in {24, 25}, n \in BOOLEAN}

\* the frames an interval covers (start inclusive, end exclusive)
FramesOf(rg) == rg[1] .. (rg[2] - 1)

\* the audible-range resolver is not in use
IdleAudible ==
    /\ python = 3
    /\ clip = None
    /\ called = None
    /\ threshold = None
    /\ vols = <<>>
    /\ result = None

\* no document is loaded and nothing is enumerated
IdleEnum ==
    /\ root = None
    /\ filelist = None
    /\ onlypureaudio = TRUE
    /\ outer = 0
    /\ inner = 0
    /\ yielded = <<>>
    /\ log = <<>>
    /\ status = "done"

\* no XmemlParser was constructed
IdleLoad == loaded = None

\* audibleranges is not running
IdleScan ==
    /\ clips = None
    /\ files = None
    /\ folded = 0
    /\ scan = "idle"

\* the Ranges collection is not in use
IdleRanges ==
    /\ r = <<>> /\ framerate = 25000 /\ before = <<>> /\ arg = None
    /\ ret = "None" /\ covered = {} /\ ncalls = 0

\* Ranges(framerate=fr): an empty collection
InitRanges ==
    /\ r = <<>>
    /\ framerate \in Framerates
    /\ before = <<>>
    /\ arg = None
    /\ ret = "None"
    /\ covered = {}
    /\ ncalls = 0
    /\ IdleAudible
    /\ IdleEnum
    /\ IdleLoad
    /\ IdleScan

\* one call of Ranges.extend(otherrange)
Extend(otherrange) ==
    /\ ncalls < MaxInserts
    /\ LET res == RangesExtend(r, otherrange)
       IN /\ r' = res.r
          /\ ret' = res.ret
    /\ before' = r
    /\ arg' = otherrange
    /\ covered' = covered \cup FramesOf(otherrange)
    /\ ncalls' = ncalls + 1
    /\ UNCHANGED <<framerate, audibleVars, enumVars, loadVars, scanVars>>

NextRanges == \E rg \in InputRanges : Extend(rg)

SpecRanges == InitRanges /\ [][NextRanges]_vars

(***************************************************************************)
(* Claims about Ranges, checked under SpecRanges.                          *)
(***************************************************************************)
\* the union of two Ranges that overlap or touch
UnionOf(a, b) == <<IF a[1] < b[1] THEN a[1] ELSE b[1], IF a[2] > b[2] THEN a[2] ELSE b[2]>>

\* C1: after any sequence of extend calls on an initially empty Ranges no two
\* members are equal and no two members overlap (closed-interval touch test).
C1_NoEqualNoOverlap ==
    \A i, j \in 1 .. Len(r) :
        i # j => ~RangeEq(r[i], r[j]) /\ ~RangeOverlaps(r[i], r[j])

\* C2: len(Ranges) is the number of frames covered by the inserted intervals,
\* each counted once, and seconds() is that number divided by the framerate.
C2_LenIsCoveredFrames ==
    /\ RangesLen(r) = Cardinality(covered)
    /\ RangesSeconds(r, framerate) = <<Cardinality(covered) * 1000, framerate>>

\* C3: extend(new_range) has exactly three outcomes: new_range equals a member
\* and the collection is unchanged; else it overlaps or touches a member and
\* that member becomes the union of the two, the count unchanged; else it is
\* appended.  (0,2) then (1,3) gives the one member (0,3); (0,1) then (2,3)
\* gives two members of total length 2.
C3_ThreeOutcomes ==
    ncalls > 0 =>
        /\ IF \E i \in 1 .. Len(before) : RangeEq(before[i], arg)
           THEN r = before
           ELSE IF \E i \in 1 .. Len(before) : RangeOverlaps(before[i], arg)
           THEN \E i \in 1 .. Len(before) :
                    /\ RangeOverlaps(before[i], arg)
                    /\ r = [before EXCEPT ![i] = UnionOf(before[i], arg)]
           ELSE r = Append(before, arg)
        /\ (before = <<Range(0, 2)>> /\ arg = Range(1, 3)) => r = <<Range(0, 3)>>
        /\ (before = <<Range(0, 1)>> /\ arg = Range(2, 3))
              => (r = <<Range(0, 1), Range(2, 3)>> /\ RangesLen(r) = 2)

(***************************************************************************)
(* class Volume                                                            *)
(***************************************************************************)
RECURSIVE Pow10(_)
\* 10 ** k for an integer k, in units of 1/10000
Pow10(k) ==
    IF k = 0 THEN 10000
    ELSE IF k > 0 THEN 10 * Pow10(k - 1)
    ELSE Pow10(k + 1) \div 10

RECURSIVE Log10(_)
\* log10(g) for a gain g, in units of 1/10000, that is a power of ten
Log10(g) ==
    IF g = 10000 THEN 0
    ELSE IF g > 10000 THEN Log10(g \div 10) + 1
    ELSE Log10(g * 10) - 1

\* Python's truth value of an optional number: None and 0 are false
Truthy(o) == o # None /\ Val(o) # 0

\* the statements under "if gain:"
VolumeFromGain(self, gain) ==
    IF Truthy(gain)
    THEN [gain |-> gain, decibel |-> Some(20 * Log10(Val(gain)))]
    ELSE self

\* the statements under "if decibel:" (decibels are whole multiples of 20)
VolumeFromDecibel(self, decibel) ==
    IF Truthy(decibel)
    THEN [gain |-> Some(Pow10(Val(decibel) \div 20)), decibel |-> decibel]
    ELSE self

\* Volume.__init__(gain, decibel)
Volume(gain, decibel) ==
    VolumeFromDecibel(VolumeFromGain([gain |-> None, decibel |-> None], gain), decibel)

(***************************************************************************)
(* Python comparisons that may meet None or an object that is no number.   *)
(* Python 3 raises TypeError; Python 2 orders None below every number and  *)
(* every number below every other object, so both ">" and ">=" are false.  *)
(* The operands are optional numbers; None stands for either case.         *)
(***************************************************************************)
PyGreater(py, a, b) ==
    IF a = None \/ b = None
    THEN (IF py = 3 THEN "TypeError" ELSE "False")
    ELSE (IF Val(a) > Val(b) THEN "True" ELSE "False")

PyGreaterEq(py, a, b) ==
    IF a = None \/ b = None
    THEN (IF py = 3 THEN "TypeError" ELSE "False")
    ELSE (IF Val(a) >= Val(b) THEN "True" ELSE "False")

(***************************************************************************)
(* Python list operations, on 0-based indices that may be negative.        *)
(***************************************************************************)
\* whether kfl[i] exists
PyHas(kfl, i) == -Len(kfl) <= i /\ i < Len(kfl)

\* kfl[i]
PyAt(kfl, i) == IF i >= 0 THEN kfl[i + 1] ELSE kfl[Len(kfl) + i + 1]

\* kfl.insert(i, x)
PyInsert(kfl, i, x) ==
    LET n == Len(kfl)
        k == IF i < 0 THEN (IF n + i < 0 THEN 0 ELSE n + i) ELSE (IF i > n THEN n ELSE i)
    IN SubSeq(kfl, 1, k) \o <<x>> \o SubSeq(kfl, k + 1, n)

(***************************************************************************)
(* class ClipItem: the audible-range resolver                              *)
(***************************************************************************)
RECURSIVE FirstEnabled_IgnoresEnabled(_, _, _, _)
\* a search that does not skip the effects that are disabled
FirstEnabled_IgnoresEnabled(filters, fld, wanted, i) ==
    IF i > Len(filters) THEN 0
    ELSE IF filters[i][fld] = wanted THEN i
    ELSE FirstEnabled_IgnoresEnabled(filters, fld, wanted, i + 1)

RECURSIVE FirstEnabled(_, _, _, _)
\* the loop of getlevels and getgain: the index of the first enabled effect
\* whose field has the value wanted, 0 for None
FirstEnabled(filters, fld, wanted, i) ==
    IF i > Len(filters) THEN 0
    ELSE IF ~filters[i].enabled THEN FirstEnabled(filters, fld, wanted, i + 1)
    ELSE IF filters[i][fld] = wanted THEN i
    ELSE FirstEnabled(filters, fld, wanted, i + 1)

\* ClipItem.getlevels
getlevels(c) == FirstEnabled(c.filters, "effectid", "audiolevels", 1)

\* ClipItem.getgain
getgain(c) == FirstEnabled(c.filters, "name", "Gain", 1)

\* ClipItem.getframerate; called only when self.file is not None
ClipGetFramerate(c) ==
    IF Val(c.file).mediatype = "audio"
    THEN c.sequenceframerate
    ELSE getframerate(c.timebase, c.ntsc)

\* the threshold the comparisons use: a Volume whose gain is set is replaced
\* by its gain; a Volume whose gain is None stays an object (None here)
EffectiveThreshold(th) == IF th.type = "Volume" THEN th.gain ELSE th.number

\* the outcomes of a call
Returned(rs, fr, branch, kfl) ==
    [kind |-> "Ranges", r |-> rs, framerate |-> fr, error |-> "", branch |-> branch,
     keyframelist |-> kfl]

ReturnedNone(branch) ==
    [kind |-> "None", r |-> <<>>, framerate |-> None, error |-> "", branch |-> branch,
     keyframelist |-> <<>>]

Raised(err, branch) ==
    [kind |-> "raise", r |-> <<>>, framerate |-> None, error |-> err, branch |-> branch,
     keyframelist |-> <<>>]

\* Ranges(range, framerate=fr) as the value of a return statement: the range
\* is put in first, then float(framerate) raises TypeError on None
NewRanges(members, fr, branch) ==
    IF fr = None THEN Raised("TypeError", branch)
    ELSE Returned(members, fr, branch, <<>>)

RECURSIVE PadInpoint(_, _, _)
\* the while loop that adds the inpoint keyframe; i is the 0-based index
PadInpoint(kfl, inpoint, i) ==
    IF ~(inpoint > PyAt(kfl, i)[1]) THEN kfl
    ELSE IF ~PyHas(kfl, i + 1)
         THEN \* IndexError: all keyframes are before inpoint
              PadInpoint(Append(kfl, <<inpoint, PyAt(kfl, i)[2]>>), inpoint, i + 1)
    ELSE IF inpoint < PyAt(kfl, i + 1)[1]
         THEN PadInpoint(PyInsert(kfl, i + 1, <<inpoint, PyAt(kfl, i + 1)[2]>>), inpoint, i + 1)
    ELSE PadInpoint(kfl, inpoint, i + 1)

\* an inpoint that is only added in front of the first keyframe
AddInpoint_NoScan(kfl, inpoint) ==
    IF inpoint < kfl[1][1] THEN PyInsert(kfl, 0, <<inpoint, kfl[1][2]>>) ELSE kfl

\* an inpoint that is never added in front of the first keyframe
AddInpoint_NoPrepend(kfl, inpoint) == PadInpoint(kfl, inpoint, 0)

\* "add our subclip inpoint to the keyframelist if it's not in it already"
AddInpoint(kfl, inpoint) ==
    IF inpoint < kfl[1][1]
    THEN PyInsert(kfl, 0, <<inpoint, kfl[1][2]>>)
    ELSE PadInpoint(kfl, inpoint, 0)

RECURSIVE PadOutpoint(_, _, _)
\* the while loop that adds the outpoint keyframe; i is the 0-based index,
\* which Python lets run below 0; an index that does not exist raises; reads
\* is the set of the indices the loop has used
PadOutpoint(kfl, outpoint, i) ==
    IF ~PyHas(kfl, i) THEN [error |-> "IndexError", kfl |-> kfl, reads |-> {i}]
    ELSE IF ~(outpoint < PyAt(kfl, i)[1]) THEN [error |-> "", kfl |-> kfl, reads |-> {i}]
    ELSE IF ~PyHas(kfl, i - 1) THEN [error |-> "IndexError", kfl |-> kfl, reads |-> {i, i - 1}]
    ELSE LET rest == IF outpoint > PyAt(kfl, i - 1)[1]
                     THEN PadOutpoint(PyInsert(kfl, i, <<outpoint, PyAt(kfl, i)[2]>>),
                                      outpoint, i - 1)
                     ELSE PadOutpoint(kfl, outpoint, i - 1)
         IN [error |-> rest.error, kfl |-> rest.kfl, reads |-> rest.reads \cup {i, i - 1}]

\* "add our subclip outpoint to the keyframelist, too"
AddOutpoint(kfl, outpoint) ==
    IF outpoint > kfl[Len(kfl)][1]
    THEN [error |-> "", kfl |-> Append(kfl, <<outpoint, kfl[Len(kfl)][2]>>), reads |-> {}]
    ELSE PadOutpoint(kfl, outpoint, Len(kfl) - 1)

\* a keyframe position that is not translated at all
ThisFrame_Local(c, keyframe) == keyframe

\* a translation that forgets to take the inpoint off
ThisFrame_NoInpoint(c, keyframe) == c.start + keyframe

\* local to global: thisframe = self.start + (keyframe - self.inpoint)
ThisFrame(c, keyframe) == c.start + (keyframe - c.inpoint)

\* whether a keyframe's volume makes it audible: volume >= threshold
KeyframeAudible(py, volume, th) == PyGreaterEq(py, Some(volume), th)

RECURSIVE WalkKeyframes(_, _, _, _, _, _)
\* the for loop over the keyframelist from its i-th entry on; st holds the
\* loop's variables audible, prevframe, thisframe and ranges
WalkKeyframes(c, kfl, th, py, i, st) ==
    IF i > Len(kfl) THEN st
    ELSE IF kfl[i][1] < c.inpoint THEN WalkKeyframes(c, kfl, th, py, i + 1, st)
    ELSE IF kfl[i][1] > c.outpoint THEN st
    ELSE LET thisframe == ThisFrame(c, kfl[i][1])
             st1 == [st EXCEPT !.thisframe = thisframe]
             cmp == KeyframeAudible(py, kfl[i][2], th)
         IN IF cmp = "TypeError" THEN [st1 EXCEPT !.error = "TypeError"]
            ELSE IF cmp = "True"
                 THEN (IF st.audible
                       THEN WalkKeyframes(c, kfl, th, py, i + 1, st1)
                       ELSE WalkKeyframes(c, kfl, th, py, i + 1,
                                [st1 EXCEPT !.audible = TRUE, !.prevframe = thisframe]))
            ELSE (IF ~st.audible
                  THEN WalkKeyframes(c, kfl, th, py, i + 1, st1)
                  ELSE WalkKeyframes(c, kfl, th, py, i + 1,
                           [st1 EXCEPT !.audible = FALSE,
                                       !.ranges = RangesExtend(@, Range(st.prevframe, thisframe)).r]))

\* the keyframe branch of audibleframes, for a keyframelist that is not empty
AudibleKeyframes(c, keyframelist, th, py, frate) ==
    LET padded == AddOutpoint(AddInpoint(keyframelist, c.inpoint), c.outpoint)
        st == WalkKeyframes(c, padded.kfl, th, py, 1,
                  [audible |-> FALSE, prevframe |-> 0, thisframe |-> 0, ranges |-> <<>>,
                   error |-> ""])
        ranges == IF st.audible
                  THEN RangesExtend(st.ranges, Range(st.prevframe, st.thisframe)).r
                  ELSE st.ranges
    IN IF padded.error # "" THEN Raised(padded.error, "keyframes")
       ELSE IF frate = None \/ frate[1] = None THEN Raised("TypeError", "keyframes")
       ELSE IF st.error # "" THEN Raised(st.error, "keyframes")
       ELSE Returned(ranges, frate[1], "keyframes", padded.kfl)

\* a scalar branch that tests the wrong way round: threshold > levels.value
AudibleScalar_Flipped(c, levels, th, py, fr) ==
    LET cmp == PyGreater(py, th, levels.value)
    IN IF cmp = "TypeError" THEN Raised("TypeError", "levels")
       ELSE IF cmp = "True" THEN NewRanges(<<Range(c.start, c.end)>>, fr, "levels")
       ELSE NewRanges(<<>>, fr, "levels")

\* the branch for an audiolevels effect without keyframes: levels.value > threshold
AudibleScalar(c, levels, th, py, fr) ==
    LET cmp == PyGreater(py, levels.value, th)
    IN IF cmp = "TypeError" THEN Raised("TypeError", "levels")
       ELSE IF cmp = "True" THEN NewRanges(<<Range(c.start, c.end)>>, fr, "levels")
       ELSE NewRanges(<<>>, fr, "levels")

\* the branch for a Gain effect: vol.gain > threshold
AudibleGain(c, v, th, py, fr) ==
    LET cmp == PyGreater(py, v.gain, th)
    IN IF cmp = "TypeError" THEN Raised("TypeError", "gain")
       ELSE IF cmp = "True" THEN NewRanges(<<Range(c.start, c.end)>>, fr, "gain")
       ELSE NewRanges(<<>>, fr, "gain")

\* neither levels nor gain: the whole clip is taken to be audible
AudibleFallback(c, fr) == NewRanges(<<Range(c.start, c.end)>>, fr, "fallback")

\* the clip after list(levels.parameters) has run the generator of its cached
\* audiolevels Effect to its end
Consumed(c, li) ==
    IF li = 0 THEN c ELSE [c EXCEPT !.filters[li].parameters = <<>>]

\* ClipItem.audibleframes(threshold): the outcome, the clip it leaves, and the
\* Volume objects it constructed with their arguments
audibleframes(c, thr, py) ==
    LET th == EffectiveThreshold(thr)
        unchanged == [clip |-> c, vols |-> <<>>]
    IN IF c.mediatype # "audio"
       THEN [result |-> ReturnedNone("video")] @@ unchanged
       ELSE IF c.file = None
       THEN \* self.file.mediatype in getframerate
            [result |-> Raised("AttributeError", "framerate")] @@ unchanged
       ELSE LET frate == ClipGetFramerate(c)
                fr == IF frate = None THEN None ELSE frate[1]
                li == getlevels(c)
                gi == getgain(c)
            IN IF li # 0 /\ ~c.filters[li].hasparameter
               THEN \* the Effect has no attribute "parameters"
                    [result |-> Raised("AttributeError", "levels")] @@ unchanged
               ELSE IF li # 0 /\ Len(c.filters[li].parameters) > 0
               THEN [result |-> AudibleKeyframes(c, c.filters[li].parameters, th, py, frate),
                     clip |-> Consumed(c, li), vols |-> <<>>]
               ELSE IF li # 0
               THEN [result |-> AudibleScalar(c, c.filters[li], th, py, fr)] @@ unchanged
               ELSE IF gi # 0
               THEN LET v == Volume(None, c.filters[gi].value)
                    IN [result |-> AudibleGain(c, v, th, py, fr), clip |-> c,
                        vols |-> <<[gain |-> None, decibel |-> c.filters[gi].value,
                                    volume |-> v]>>]
               ELSE [result |-> AudibleFallback(c, fr)] @@ unchanged

(***************************************************************************)
(* The clips and thresholds audibleframes is called with.                  *)
(***************************************************************************)
Positions == 0 .. MaxPos

\* the values of keyframes: 0.0 and 1.0
KeyframeLevels == {0, 10000}

\* the values of a scalar audiolevels parameter: 0.0, 0.5 and 1.0
Levels == {0, 5000, 10000}

\* the values of a Gain effect, in decibel
Decibels == {-20, 0, 20}

\* the keyframes of an effect, in document order: sorted by position
KeyframeLists ==
    {kfs \in UNION {[1 .. n -> Positions \X KeyframeLevels] : n \in 1 .. MaxKeyframes} :
        \A i \in 1 .. (Len(kfs) - 1) : kfs[i][1] < kfs[i + 1][1]}

\* Effect.__init__: the parent's <enabled>, the <parameter> element if there
\* is one, its <value> and the generator over its <keyframe> children
Effect(name, effectid, enabled, hasparameter, value, keyframes) ==
    [name |-> name, effectid |-> effectid, enabled |-> enabled,
     hasparameter |-> hasparameter,
     value |-> IF hasparameter THEN value ELSE None,
     parameters |-> IF hasparameter THEN keyframes ELSE <<>>]

ScalarLevels == {Effect("Level", "audiolevels", en, TRUE, Some(v), <<>>) :
                    en \in BOOLEAN, v \in Levels}

GainEffects == {Effect("Gain", "audiogain", en, TRUE, Some(d), <<>>) :
                    en \in BOOLEAN, d \in Decibels}

\* a File of the registry: its mediatype
AudioFile == Some([mediatype |-> "audio"])
VideoFile == Some([mediatype |-> "video"])

\* a ClipItem on an audio track of a 25 fps sequence, its file an audio file
AudioClip(inpoint, outpoint, filters) ==
    [start |-> 10, end |-> 20, inpoint |-> inpoint, outpoint |-> outpoint,
     mediatype |-> "audio", file |-> AudioFile,
     sequenceframerate |-> getframerate(Some(25), FALSE),
     timebase |-> Some(25), ntsc |-> FALSE, filters |-> filters]

\* clips whose audiolevels effect has keyframes
KeyframedClips ==
    {AudioClip(w[1], w[2], <<Effect("Level", "audiolevels", TRUE, TRUE, Some(5000), kfs)>>) :
        w \in {w \in Positions \X Positions : w[1] <= w[2]}, kfs \in KeyframeLists}

\* clips with up to two effects, none with keyframes
ScalarClips ==
    {AudioClip(0, 2, fs) :
        fs \in {<<>>} \cup {<<e>> : e \in ScalarLevels \cup GainEffects}
               \cup {<<e, f>> : e \in ScalarLevels \cup GainEffects,
                                f \in ScalarLevels \cup GainEffects}}

\* clips with something missing: no file, a video file, a video source track,
\* a timebase that is absent or not in the table, effects without a <parameter>
OddClips ==
    {[AudioClip(0, 2, fs) EXCEPT !.mediatype = mt, !.file = fl,
                                 !.sequenceframerate = sfr, !.timebase = tb] :
        mt \in {"audio", "video"}, fl \in {None, AudioFile, VideoFile},
        sfr \in {getframerate(Some(25), FALSE), getframerate(Some(29), FALSE)},
        tb \in {None, Some(25), Some(29)},
        fs \in {<<>>,
                <<Effect("Level", "audiolevels", TRUE, TRUE, Some(5000), <<>>)>>,
                <<Effect("Level", "audiolevels", TRUE, TRUE, Some(5000), <<<<1, 10000>>>>)>>,
                <<Effect("Level", "audiolevels", TRUE, FALSE, None, <<>>)>>,
                <<Effect("Gain", "audiogain", TRUE, FALSE, None, <<>>)>>}}

Clips == KeyframedClips \cup ScalarClips \cup OddClips

\* a threshold given as a bare number
NumberThreshold(x) == [decibel |-> None, gain |-> None, number |-> Some(x), type |-> "float"]

\* a threshold given as a Volume object
VolumeThreshold(v) == [decibel |-> v.decibel, gain |-> v.gain, number |-> None, type |-> "Volume"]

\* 0.1, 0.5, 0.9 and 1.0
NumberThresholds == {1000, 5000, 9000, 10000}

\* the arguments a caller constructs a Volume with
VolumeArgs ==
    {[gain |-> g, decibel |-> None] : g \in {None, Some(10000)}}
    \cup {[gain |-> None, decibel |-> d] : d \in {Some(-20), Some(0)}}

InitAudible ==
    /\ python \in {2, 3}
    /\ clip \in Clips
    /\ called = None
    /\ threshold = None
    /\ vols = <<>>
    /\ result = None
    /\ IdleRanges
    /\ IdleEnum
    /\ IdleLoad
    /\ IdleScan

\* clip.audibleframes(thr)
Call(thr, made) ==
    LET out == audibleframes(clip, thr, python)
    IN /\ called' = clip
       /\ threshold' = thr
       /\ result' = out.result
       /\ clip' = out.clip
       /\ vols' = made \o out.vols
       /\ UNCHANGED <<python, rangesVars, enumVars, loadVars, scanVars>>

\* clip.audibleframes(x) for a number x
CallWithNumber(x) == Call(NumberThreshold(x), <<>>)

\* clip.audibleframes(Volume(gain=g, decibel=d))
CallWithVolume(a) ==
    LET v == Volume(a.gain, a.decibel)
    IN Call(VolumeThreshold(v), <<a @@ [volume |-> v]>>)

NextAudible ==
    \/ \E x \in NumberThresholds : CallWithNumber(x)
    \/ \E a \in VolumeArgs : CallWithVolume(a)

SpecAudible == InitAudible /\ [][NextAudible]_vars

(***************************************************************************)
(* Claims about audibleframes and Volume, checked under SpecAudible.       *)
(***************************************************************************)
\* the threshold of the last call, as the number the comparisons use
Th == EffectiveThreshold(threshold)

\* the clip is an audio clip whose framerate resolves: it sits on an audio
\* source track, has a File, and the framerate that applies to it is known
AudioClipResolved(c) ==
    /\ c.mediatype = "audio"
    /\ c.file # None
    /\ ClipGetFramerate(c) # None
    /\ ClipGetFramerate(c)[1] # None

\* whether the i-th effect of the clip is an enabled audiolevels effect
IsEnabledLevels(c, i) == c.filters[i].enabled /\ c.filters[i].effectid = "audiolevels"

\* whether the i-th effect of the clip is an enabled Gain effect
IsEnabledGain(c, i) == c.filters[i].enabled /\ c.filters[i].name = "Gain"

HasEnabledLevels(c) == \E i \in 1 .. Len(c.filters) : IsEnabledLevels(c, i)

HasEnabledGain(c) == \E i \in 1 .. Len(c.filters) : IsEnabledGain(c, i)

\* the enabled audiolevels effect of the clip the last call was made on: the
\* first one in document order
CalledLevels ==
    called.filters[CHOOSE i \in 1 .. Len(called.filters) :
                       /\ IsEnabledLevels(called, i)
                       /\ \A j \in 1 .. (i - 1) : ~IsEnabledLevels(called, j)]

\* the enabled Gain effect of the clip the last call was made on
CalledGainEffect ==
    called.filters[CHOOSE i \in 1 .. Len(called.filters) :
                       /\ IsEnabledGain(called, i)
                       /\ \A j \in 1 .. (i - 1) : ~IsEnabledGain(called, j)]

\* the last call was made on an audio clip whose enabled audiolevels effect
\* still had keyframes to give, with a threshold that is a number
KeyframeCall ==
    /\ called # None
    /\ AudioClipResolved(called)
    /\ HasEnabledLevels(called)
    /\ CalledLevels.hasparameter
    /\ Len(CalledLevels.parameters) > 0
    /\ Th # None

\* the keyframes of a padded list that lie in the clip's window
InWindow(c, kfl) == SelectSeq(kfl, LAMBDA k : c.inpoint <= k[1] /\ k[1] <= c.outpoint)

\* the places in w where a range opens: the value is at or above the
\* threshold and the one before, if any, is below it
Opens(w, th) == {i \in 1 .. Len(w) : w[i][2] >= th /\ (i = 1 \/ w[i - 1][2] < th)}

\* where the range opened at i closes: the next value below the threshold,
\* or the last keyframe of the window
CloseOf(w, th, i) ==
    IF \E j \in (i + 1) .. Len(w) : w[j][2] < th
    THEN CHOOSE j \in (i + 1) .. Len(w) :
             w[j][2] < th /\ \A k \in (i + 1) .. (j - 1) : w[k][2] >= th
    ELSE Len(w)

\* the ranges of the step function over the window w, in ascending order,
\* each position mapped by global = clip.start + (local - inpoint)
StepRanges(c, w, th) ==
    LET opens == Opens(w, th)
        nth(k) == CHOOSE i \in opens : Cardinality({j \in opens : j < i}) = k - 1
    IN [k \in 1 .. Cardinality(opens) |->
           <<c.start + (w[nth(k)][1] - c.inpoint),
             c.start + (w[CloseOf(w, th, nth(k))][1] - c.inpoint)>>]

\* C4: with keyframes sorted by position, audibleframes returns exactly the
\* ranges of the step function over the in-window keyframes of the padded
\* list: a range opens at the first keyframe at or above the threshold, closes
\* at the next one below it, or at the last processed position, each mapped by
\* global = clip.start + (local - inpoint).  Keyframes (0,0.0),(1,1.0),(2,0.0)
\* with inpoint 0, outpoint 3, start 10 and threshold 0.5 give Range (11,12).
C4_KeyframeStepFunction ==
    KeyframeCall =>
        /\ result.kind = "Ranges"
        /\ result.r = StepRanges(called, InWindow(called, result.keyframelist), Val(Th))
        /\ (/\ CalledLevels.parameters = <<<<0, 0>>, <<1, 10000>>, <<2, 0>>>>
            /\ called.inpoint = 0 /\ called.outpoint = 3 /\ called.start = 10
            /\ Val(Th) = 5000)
              => result.r = <<Range(11, 12)>>

\* C4's case: the example of the claim, and a call that gave two ranges
C4_Witness ==
    /\ KeyframeCall
    /\ CalledLevels.parameters = <<<<0, 0>>, <<1, 10000>>, <<2, 0>>>>
    /\ called.inpoint = 0 /\ called.outpoint = 3 /\ Val(Th) = 5000
    /\ result.r = <<Range(11, 12)>>

\* the last call was made on an audio clip whose enabled audiolevels effect
\* has a scalar value and no keyframes, with a threshold that is a number
ScalarCall ==
    /\ called # None
    /\ AudioClipResolved(called)
    /\ HasEnabledLevels(called)
    /\ CalledLevels.hasparameter
    /\ Len(CalledLevels.parameters) = 0
    /\ Th # None

\* the Volume objects the call itself constructed
MadeByCall == IF threshold.type = "Volume" THEN Tail(vols) ELSE vols

\* C5: for an audio clip whose enabled audiolevels effect has a scalar value
\* and no keyframes, audibleframes returns the one Range (start, end) when the
\* value is above the threshold (0.5 against 0.1) and an empty Ranges of
\* length 0 when it is below (0.5 against 0.9); no Gain effect is consulted.
C5_ScalarLevels ==
    (ScalarCall /\ Val(CalledLevels.value) # Val(Th)) =>
        /\ result.kind = "Ranges"
        /\ Val(CalledLevels.value) > Val(Th) => result.r = <<Range(called.start, called.end)>>
        /\ Val(CalledLevels.value) < Val(Th) => (result.r = <<>> /\ RangesLen(result.r) = 0)
        /\ MadeByCall = <<>>

\* C5's case: a scalar level of 0.5 against the threshold 0.9 on a clip that
\* also has an enabled Gain effect of +20 dB, which alone would be audible
C5_Witness ==
    /\ ScalarCall
    /\ Val(CalledLevels.value) = 5000 /\ Val(Th) = 9000
    /\ HasEnabledGain(called)
    /\ CalledGainEffect.value = Some(20)
    /\ result.r = <<>>

\* the last call was made on an audio clip with no enabled audiolevels effect
\* but an enabled Gain effect carrying a decibel value
GainCall ==
    /\ called # None
    /\ AudioClipResolved(called)
    /\ ~HasEnabledLevels(called)
    /\ HasEnabledGain(called)
    /\ CalledGainEffect.value # None
    /\ Th # None

\* the decibel value of the Gain effect of the last call, as linear gain
CalledGain == Pow10(Val(CalledGainEffect.value) \div 20)

\* the keyframes the walk of the last call looked at
WalkedKeyframes == InWindow(called, result.keyframelist)

\* C6: a value equal to the threshold is audible in every branch: a scalar
\* audiolevels value, the linear gain of a Gain effect, a keyframe value.
C6_AtOrAboveEverywhere ==
    /\ (ScalarCall /\ Val(CalledLevels.value) = Val(Th))
          => result.r = <<Range(called.start, called.end)>>
    /\ (GainCall /\ CalledGain = Val(Th))
          => result.r = <<Range(called.start, called.end)>>
    /\ (KeyframeCall /\ result.kind = "Ranges"
          /\ \A i \in 1 .. Len(WalkedKeyframes) : WalkedKeyframes[i][2] = Val(Th))
          => result.r = <<Range(called.start + (WalkedKeyframes[1][1] - called.inpoint),
                                called.start + (WalkedKeyframes[Len(WalkedKeyframes)][1]
                                                   - called.inpoint))>>

\* C7: Volume(decibel=d) sets gain = 10^(d/20) for every d, 0.0 included;
\* Volume(gain=1.0).decibel is 0.0; both fields are absent only when neither
\* argument was passed.
C7_VolumeDefined ==
    \A i \in 1 .. Len(vols) :
        /\ vols[i].decibel # None
              => vols[i].volume.gain = Some(Pow10(Val(vols[i].decibel) \div 20))
        /\ (vols[i].gain = Some(10000) /\ vols[i].decibel = None)
              => vols[i].volume.decibel = Some(0)
        /\ (vols[i].volume.gain = None /\ vols[i].volume.decibel = None)
              => (vols[i].gain = None /\ vols[i].decibel = None)

\* C8: with no enabled audiolevels effect and an enabled Gain effect of d
\* decibel, audibleframes returns the one Range (start, end) when 10^(d/20)
\* is above the threshold and an empty Ranges when it is below, for every d
\* including 0 dB, and does not raise.
C8_GainBranch ==
    (GainCall /\ CalledGain # Val(Th)) =>
        /\ result.kind = "Ranges"
        /\ CalledGain > Val(Th) => result.r = <<Range(called.start, called.end)>>
        /\ CalledGain < Val(Th) => result.r = <<>>

\* the last call was made on an audio clip with neither an enabled
\* audiolevels effect nor an enabled Gain effect
FallbackCall ==
    /\ called # None
    /\ AudioClipResolved(called)
    /\ ~HasEnabledLevels(called)
    /\ ~HasEnabledGain(called)

\* C9: an audio clip with neither an enabled audiolevels effect nor an enabled
\* Gain effect, disabled ones included, gets the one Range (start, end), for
\* every threshold.
C9_FallbackFullRange ==
    FallbackCall =>
        /\ result.kind = "Ranges"
        /\ result.r = <<Range(called.start, called.end)>>

\* C9's case: a clip whose audiolevels effect of value 0.0 and whose Gain
\* effect of -20 dB are both disabled, called with the threshold 1.0
C9_Witness ==
    /\ FallbackCall
    /\ Len(called.filters) = 2
    /\ called.filters[1].effectid = "audiolevels" /\ called.filters[1].value = Some(0)
    /\ called.filters[2].name = "Gain" /\ called.filters[2].value = Some(-20)
    /\ Th = Some(10000)
    /\ result.r = <<Range(called.start, called.end)>>

(***************************************************************************)
(* The document.  A track is its <enabled> text, if it has one, and its    *)
(* children in document order; a child is a clipitem or a transitionitem   *)
(* element, given by the texts of its sub-elements.  Timeline positions    *)
(* are whole frames and transitions have an even length, so that           *)
(* centerframe is a whole frame too.                                       *)
(***************************************************************************)
\* str.upper() on the texts an <enabled> element holds
Upper(text) ==
    IF text = "false" THEN "FALSE" ELSE IF text = "true" THEN "TRUE" ELSE text

\* enabled, as iteraudioclips and ClipItem.__init__ decide it: an absent
\* <enabled> means TRUE, otherwise anything but FALSE in any case
IsEnabled(enabled) == IF enabled = None THEN TRUE ELSE Upper(Val(enabled)) # "FALSE"

\* a <transitionitem> element; effects holds its <effect> child, if it has one
TransitionElWith(start, end, effects) ==
    [tag |-> "transitionitem", name |-> "", start |-> start, end |-> end,
     in |-> 0, out |-> 0, enabled |-> None, file |-> None,
     mediatype |-> None, timebase |-> None, ntsc |-> None,
     effects |-> effects, nested |-> None, nestedaudio |-> TRUE]

\* a <transitionitem> element with an <effect> child, as the editors write it
TransitionEl(start, end) ==
    TransitionElWith(start, end, <<Effect("Cross Fade", "crossfade", TRUE, FALSE, None, <<>>)>>)

\* a <clipitem> element on an audio source track, without a <rate> of its
\* own; file is the id its <file> child refers to, nested the tracks of its
\* <sequence>/<media>/<audio>, and nestedaudio whether its <sequence>/<media>
\* has an <audio> child at all
ClipEl(name, start, end, enabled, file, nested) ==
    [tag |-> "clipitem", name |-> name, start |-> start, end |-> end,
     in |-> 0, out |-> 5, enabled |-> enabled, file |-> file,
     mediatype |-> Some("audio"), timebase |-> None, ntsc |-> None,
     effects |-> <<>>, nested |-> nested, nestedaudio |-> TRUE]

\* a <track> element
TrackEl(enabled, items) == [enabled |-> enabled, items |-> items]

\* TransitionItem.__init__: duration = end - start, centerframe = start + duration / 2
TransitionItem(el) ==
    [start |-> el.start, end |-> el.end, duration |-> el.end - el.start,
     centerframe |-> el.start + ((el.end - el.start) \div 2)]

\* a lookup that takes the first transitionitem of the track before items[i]
PrevTransition_First(items, i) ==
    LET before_i == {j \in 1 .. (i - 1) : items[j].tag = "transitionitem"}
    IN IF before_i = {} THEN 0 ELSE CHOOSE j \in before_i : \A k \in before_i : j <= k

\* ./preceding-sibling::transitionitem[1]: the nearest one before items[i], 0 if none
PrevTransition(items, i) ==
    LET before_i == {j \in 1 .. (i - 1) : items[j].tag = "transitionitem"}
    IN IF before_i = {} THEN 0 ELSE CHOOSE j \in before_i : \A k \in before_i : k <= j

\* ./following-sibling::transitionitem[1]: the nearest one after items[i], 0 if none
FollowingTransition(items, i) ==
    LET after_i == {j \in (i + 1) .. Len(items) : items[j].tag = "transitionitem"}
    IN IF after_i = {} THEN 0 ELSE CHOOSE j \in after_i : \A k \in after_i : j <= k

\* ClipItem.gettransition: the TransitionItem of the sibling found, or the
\* XmemlNoTransitionError it raises when there is none
gettransition(items, j) ==
    IF j = 0 THEN [raised |-> "XmemlNoTransitionError", centerframe |-> 0]
    ELSE IF items[j].effects = <<>>
    THEN \* Effect(tree.find("effect")) reads an attribute of None
         [raised |-> "AttributeError", centerframe |-> 0]
    ELSE [raised |-> "", centerframe |-> TransitionItem(items[j]).centerframe]

\* a warning of ClipItem.__init__ or iteraudioclips
Warning(what, name) == [what |-> what, name |-> name]

\* an endpoint resolution that lets the XmemlNoTransitionError through
ResolveEndpoint_Uncaught(value, tr, what, name) ==
    IF value # -1 THEN [value |-> value, warnings |-> <<>>, error |-> ""]
    ELSE IF tr.raised = "" THEN [value |-> tr.centerframe, warnings |-> <<>>, error |-> ""]
    ELSE [value |-> value, warnings |-> <<>>, error |-> tr.raised]

\* ClipItem.__init__, one endpoint: a start or end of -1 is taken from the
\* transition's centerframe; an XmemlNoTransitionError is caught, a warning
\* is logged and the endpoint stays -1
ResolveEndpoint(value, tr, what, name) ==
    IF value # -1 THEN [value |-> value, warnings |-> <<>>, error |-> ""]
    ELSE IF tr.raised = "" THEN [value |-> tr.centerframe, warnings |-> <<>>, error |-> ""]
    ELSE IF tr.raised = "XmemlNoTransitionError"
    THEN [value |-> value, warnings |-> <<Warning(what, name)>>, error |-> ""]
    ELSE [value |-> value, warnings |-> <<>>, error |-> tr.raised]

\* File.filelist[tree.find("file").get("id")], None on AttributeError (no
\* <file> child) and on KeyError (an id the registry does not hold)
LookupFile(el, registry) ==
    IF el.file = None THEN None
    ELSE IF Val(el.file) \in DOMAIN registry THEN Some(registry[Val(el.file)])
    ELSE None

\* a constructor that keeps <in> and <out> as they are written
SwapReversed_Kept(inpoint, outpoint) == <<inpoint, outpoint>>

\* ClipItem.__init__: if self.inpoint > self.outpoint the two are exchanged
SwapReversed(inpoint, outpoint) ==
    IF inpoint > outpoint THEN <<outpoint, inpoint>> ELSE <<inpoint, outpoint>>

\* ClipItem(items[i], sequenceframerate): the object, the warnings its
\* constructor logged, and the exception that left the constructor, if any
ClipItemInit(items, i, site, sequenceframerate, registry) ==
    LET el == items[i]
        inpoint == SwapReversed(el.in, el.out)[1]
        outpoint == SwapReversed(el.in, el.out)[2]
        start == ResolveEndpoint(el.start, gettransition(items, PrevTransition(items, i)),
                                 "start", el.name)
        end == ResolveEndpoint(el.end, gettransition(items, FollowingTransition(items, i)),
                               "end", el.name)
    IN [error |-> IF start.error # "" THEN start.error ELSE end.error,
        warnings |-> start.warnings \o end.warnings,
        ci |-> [name |-> el.name, tree |-> site,
                start |-> start.value, end |-> end.value,
                inpoint |-> inpoint, outpoint |-> outpoint,
                duration |-> outpoint - inpoint,
                mediatype |-> IF el.mediatype = None THEN "None" ELSE Val(el.mediatype),
                file |-> LookupFile(el, registry),
                sequenceframerate |-> sequenceframerate,
                timebase |-> el.timebase, ntsc |-> el.ntsc = Some("TRUE"),
                isnestedsequence |-> el.nested # None,
                enabled |-> IsEnabled(el.enabled),
                filters |-> el.effects]]

(***************************************************************************)
(* XmemlParser.iteraudioclips, one ClipItem construction at a time.        *)
(***************************************************************************)
\* track.iterchildren(tag="clipitem"): the places of the clipitems among the items
ClipitemsOf(items) ==
    SelectSeq([i \in 1 .. Len(items) |-> i], LAMBDA i : items[i].tag = "clipitem")

RECURSIVE OuterSites(_, _)
\* the clipitems the loop over the tracks constructs, as <<track, item>>, in
\* order, from track t on: a track whose <enabled> is FALSE is skipped
OuterSites(tracks, t) ==
    IF t > Len(tracks) THEN <<>>
    ELSE (IF IsEnabled(tracks[t].enabled)
          THEN LET at == ClipitemsOf(tracks[t].items)
               IN [k \in 1 .. Len(at) |-> <<t, at[k]>>]
          ELSE <<>>) \o OuterSites(tracks, t + 1)

RECURSIVE InnerSites(_, _)
\* the clipitems the loop over a nested sequence constructs, from track t on:
\* every clipitem of every track of the nested sequence
InnerSites(tracks, t) ==
    IF t > Len(tracks) THEN <<>>
    ELSE LET at == ClipitemsOf(tracks[t].items)
         IN [k \in 1 .. Len(at) |-> <<t, at[k]>>] \o InnerSites(tracks, t + 1)

\* getframerate(float(seq_rate.findtext("timebase")), seq_rate.findtext("ntsc") == "TRUE")
SequenceFramerate(doc) == getframerate(Some(doc.timebase), doc.ntsc = "TRUE")

\* the element the loop over the tracks is at
OuterEl == root.tracks[OuterSites(root.tracks, 1)[outer][1]].items[OuterSites(root.tracks, 1)[outer][2]]

\* the body of the loop over the clipitems of the enabled tracks: construct
\* the ClipItem, skip it if it is disabled, enter it if it is a nested
\* sequence, otherwise yield it if it passes the onlypureaudio test
ConstructClip ==
    /\ status = "running"
    /\ inner = 0
    /\ outer <= Len(OuterSites(root.tracks, 1))
    /\ LET site == OuterSites(root.tracks, 1)[outer]
           made == ClipItemInit(root.tracks[site[1]].items, site[2], site,
                                SequenceFramerate(root), filelist)
           ci == made.ci
       IN IF made.error # ""
          THEN /\ status' = "raised"
               /\ UNCHANGED <<outer, inner, yielded, log>>
          ELSE /\ log' = log \o made.warnings
               /\ IF ~ci.enabled
                  THEN /\ outer' = outer + 1
                       /\ UNCHANGED <<inner, yielded, status>>
                  ELSE IF ci.isnestedsequence /\ ~OuterEl.nestedaudio
                  THEN \* clip.find("sequence/media/audio") is None: AttributeError
                       /\ status' = "raised"
                       /\ UNCHANGED <<outer, inner, yielded>>
                  ELSE IF ci.isnestedsequence
                  THEN /\ IF InnerSites(Val(OuterEl.nested), 1) = <<>>
                          THEN outer' = outer + 1 /\ inner' = 0
                          ELSE outer' = outer /\ inner' = 1
                       /\ UNCHANGED <<yielded, status>>
                  ELSE /\ outer' = outer + 1
                       /\ inner' = inner
                       /\ status' = status
                       /\ yielded' =
                              IF ~onlypureaudio THEN Append(yielded, ci)
                              ELSE IF ci.file # None /\ Val(ci.file).mediatype = "audio"
                              THEN Append(yielded, ci)
                              ELSE yielded
    /\ UNCHANGED <<root, filelist, onlypureaudio, rangesVars, audibleVars, loadVars, scanVars>>

\* the body of the loop over the clipitems of a nested sequence: construct
\* the ClipItem and yield it if it passes the onlypureaudio test, with a
\* warning for a nested clip without a file
ConstructNestedClip ==
    /\ status = "running"
    /\ inner > 0
    /\ LET tracks == Val(OuterEl.nested)
           sites == InnerSites(tracks, 1)
           site == sites[inner]
           made == ClipItemInit(tracks[site[1]].items, site[2],
                                OuterSites(root.tracks, 1)[outer] \o site,
                                SequenceFramerate(root), filelist)
           nestedci == made.ci
       IN IF made.error # ""
          THEN /\ status' = "raised"
               /\ UNCHANGED <<outer, inner, yielded, log>>
          ELSE /\ status' = status
               /\ IF inner = Len(sites)
                  THEN outer' = outer + 1 /\ inner' = 0
                  ELSE outer' = outer /\ inner' = inner + 1
               /\ IF ~onlypureaudio
                  THEN yielded' = Append(yielded, nestedci) /\ log' = log \o made.warnings
                  ELSE IF nestedci.file = None
                  THEN /\ yielded' = yielded
                       /\ log' = log \o made.warnings \o <<Warning("nofile", nestedci.name)>>
                  ELSE IF Val(nestedci.file).mediatype = "audio"
                  THEN yielded' = Append(yielded, nestedci) /\ log' = log \o made.warnings
                  ELSE yielded' = yielded /\ log' = log \o made.warnings
    /\ UNCHANGED <<root, filelist, onlypureaudio, rangesVars, audibleVars, loadVars, scanVars>>

\* the loop over the tracks is over: the generator returns
Finish ==
    /\ status = "running"
    /\ inner = 0
    /\ outer > Len(OuterSites(root.tracks, 1))
    /\ status' = "done"
    /\ UNCHANGED <<root, filelist, onlypureaudio, outer, inner, yielded, log,
                   rangesVars, audibleVars, loadVars, scanVars>>

(***************************************************************************)
(* The documents iteraudioclips is run on.                                 *)
(***************************************************************************)
\* the File objects of the documents: f1 is an audio file, f2 has <media>/<video>
Registry == [id \in {"f1", "f2"} |-> IF id = "f1" THEN Val(AudioFile) ELSE Val(VideoFile)]

\* the clips of a nested sequence: one with an audio file, one without a
\* <file>, one with an audio file and <enabled> FALSE
NestedItems ==
    <<ClipEl("i", 0, 5, None, Some("f1"), None), ClipEl("x", 5, 9, None, None, None),
      ClipEl("y", 9, 12, Some("FALSE"), Some("f1"), None)>>

\* the children a track is made of: a clip with both endpoints, a clip with
\* both at -1, a transition with centerframe 6, a clip of a video file, a
\* disabled clip, a nested sequence
Items ==
    {ClipEl("a", 10, 20, None, Some("f1"), None),
     ClipEl("b", -1, -1, None, Some("f1"), None),
     TransitionEl(4, 8),
     ClipEl("v", 30, 40, None, Some("f2"), None),
     ClipEl("d", 10, 20, Some("false"), Some("f1"), None),
     ClipEl("n", 50, 60, None, None, Some(<<TrackEl(None, NestedItems)>>))}

\* the tracks of up to MaxItems children, <enabled> absent
Tracks == {TrackEl(None, items) : items \in UNION {[1 .. n -> Items] : n \in 0 .. MaxItems}}

\* a second track of one clip, <enabled> absent or FALSE
OtherTracks == {TrackEl(en, <<ClipEl("o", 0, 9, None, Some("f1"), None)>>) :
                   en \in {None, Some("FALSE")}}

\* the sequence of a document: its rate and the tracks of its <media>/<audio>
Documents ==
    {[timebase |-> 25, ntsc |-> "FALSE", tracks |-> ts] :
        ts \in {<<t>> : t \in Tracks}
               \cup {<<t, o>> : t \in Tracks, o \in OtherTracks}
               \cup {<<o, t>> : t \in Tracks, o \in OtherTracks}}

\* XmemlParser(filename) has parsed a document and filled the registry with
\* its files; parser.iteraudioclips(onlypureaudio) is about to run
InitEnum ==
    /\ root \in Documents
    /\ filelist = Registry
    /\ onlypureaudio \in BOOLEAN
    /\ outer = 1
    /\ inner = 0
    /\ yielded = <<>>
    /\ log = <<>>
    /\ status = "running"
    /\ IdleRanges
    /\ IdleAudible
    /\ IdleLoad
    /\ IdleScan

NextEnum == ConstructClip \/ ConstructNestedClip \/ Finish

SpecEnum == InitEnum /\ [][NextEnum]_vars

(***************************************************************************)
(* Claims about the enumeration, checked under SpecEnum.                   *)
(***************************************************************************)
\* the element a yielded ClipItem was constructed from
ElementOf(ci) ==
    IF Len(ci.tree) = 2 THEN root.tracks[ci.tree[1]].items[ci.tree[2]]
    ELSE Val(root.tracks[ci.tree[1]].items[ci.tree[2]].nested)[ci.tree[3]].items[ci.tree[4]]

\* the siblings of that element, itself included
SiblingsOf(ci) ==
    IF Len(ci.tree) = 2 THEN root.tracks[ci.tree[1]].items
    ELSE Val(root.tracks[ci.tree[1]].items[ci.tree[2]].nested)[ci.tree[3]].items

\* the element has start and end at -1 and no transitionitem among its siblings
LoneSentinel(el, siblings) ==
    /\ el.tag = "clipitem"
    /\ el.start = -1 /\ el.end = -1
    /\ \A j \in 1 .. Len(siblings) : siblings[j].tag # "transitionitem"

\* the clipitems of the tracks that pass the filters of the enumeration,
\* whatever their start and end: the track and the clipitem are enabled, the
\* clipitem is not a nested sequence, and with onlypureaudio its <file> is a
\* file of the registry that is an audio file
Passing ==
    {<<t, i>> \in (1 .. Len(root.tracks)) \X (1 .. (MaxItems + 1)) :
        /\ i <= Len(root.tracks[t].items)
        /\ root.tracks[t].enabled \notin {Some("FALSE"), Some("false")}
        /\ LET el == root.tracks[t].items[i]
           IN /\ el.tag = "clipitem"
              /\ el.enabled \notin {Some("FALSE"), Some("false")}
              /\ el.nested = None
              /\ onlypureaudio =>
                    /\ el.file # None
                    /\ Val(el.file) \in DOMAIN filelist
                    /\ filelist[Val(el.file)].mediatype = "audio"}

\* the yielded ClipItems that come from the tracks and not from a nested sequence
YieldedOuter == {k \in 1 .. Len(yielded) : Len(yielded[k].tree) = 2}

\* a clip whose start and end are both -1 and that has no sibling
\* transitionitem is never in the output of the enumeration
C10_SentinelClipExcluded ==
    \A k \in 1 .. Len(yielded) : ~LoneSentinel(ElementOf(yielded[k]), SiblingsOf(yielded[k]))

\* C10: a clip whose start and end are both -1 and that has no preceding or
\* following sibling transitionitem is constructed without an exception
\* leaving the constructor: one warning is logged for its start and one for
\* its end, both stay -1, and the clip is enumerated like any other clip;
\* every clip of the scan that passes the filters is enumerated, in order.
C10_SentinelClipKept ==
    /\ status # "raised"
    /\ \A k \in 1 .. Len(yielded) :
          LoneSentinel(ElementOf(yielded[k]), SiblingsOf(yielded[k])) =>
              /\ yielded[k].start = -1 /\ yielded[k].end = -1
              /\ \E m \in 1 .. (Len(log) - 1) :
                    /\ log[m] = Warning("start", yielded[k].name)
                    /\ log[m + 1] = Warning("end", yielded[k].name)
    /\ status = "done" =>
          /\ {yielded[k].tree : k \in YieldedOuter} = Passing
          /\ \A k, m \in YieldedOuter :
                k < m => \/ yielded[k].tree[1] < yielded[m].tree[1]
                         \/ /\ yielded[k].tree[1] = yielded[m].tree[1]
                            /\ yielded[k].tree[2] < yielded[m].tree[2]

\* C10's case: a scan that is over and that yielded a clip with both
\* endpoints at -1 and no sibling transition, and another clip after it
C10_Witness ==
    /\ status = "done"
    /\ \E k \in 1 .. (Len(yielded) - 1) :
          /\ LoneSentinel(ElementOf(yielded[k]), SiblingsOf(yielded[k]))
          /\ yielded[k].start = -1 /\ yielded[k].end = -1
          /\ ~LoneSentinel(ElementOf(yielded[k + 1]), SiblingsOf(yielded[k + 1]))

(***************************************************************************)
(* XmemlParser.__init__.  A document is its root tag, the text of the      *)
(* <enabled> child of its root element, the <sequence> found at each of    *)
(* the three places the loader looks at (absent if there is none), and its *)
(* <file> elements in document order, each with the innermost of the three *)
(* candidate roots it lies under.                                          *)
(***************************************************************************)
\* a <sequence> element: its id attribute, its <enabled>, its <rate>, and the
\* tracks of its <media>/<audio>
SequenceEl(id, enabled, tracks) ==
    [id |-> id, enabled |-> enabled, timebase |-> 25, ntsc |-> "FALSE", tracks |-> tracks]

\* a <file> element: a definition if it has a <name>, a back-reference if not
FileEl(id, name, video, under) == [id |-> id, name |-> name, video |-> video, under |-> under]

\* File.__init__: mediatype is video if there is a <media>/<video>, audio otherwise
File(el) ==
    [mediatype |-> IF el.video THEN "video" ELSE "audio", name |-> Val(el.name), id |-> el.id]

\* a root tag test that lets every document through
RootTagOk_Any(doc) == TRUE

\* self.tree.getroot().tag == "xmeml"
RootTagOk(doc) == doc.tag = "xmeml"

\* the if/elif chain that sets self.root: the root element if it has a
\* <sequence> child, else project/children, else
\* project/children/bin/children, else self.root is never set
ChosenRoot(doc) ==
    IF doc.sequence # None THEN "xmeml"
    ELSE IF doc.project # None THEN "project"
    ELSE IF doc.bin # None THEN "bin"
    ELSE "unset"

\* self.root.find("sequence")
SequenceOf(doc, chosen) ==
    IF chosen = "xmeml" THEN Val(doc.sequence)
    ELSE IF chosen = "project" THEN Val(doc.project)
    ELSE Val(doc.bin)

\* whether a <file> under the candidate root `under` is a descendant of the chosen root
IsUnder(under, chosen) ==
    \/ chosen = "xmeml"
    \/ chosen = "project" /\ under \in {"project", "bin"}
    \/ chosen = "bin" /\ under = "bin"

\* self.root.iter("file") with f.findtext("name") is not None
NamedFilesUnder(doc, chosen) ==
    SelectSeq(doc.files, LAMBDA f : f.name # None /\ IsUnder(f.under, chosen))

\* a registry that keeps the entries it had and adds the new ones
BuildFilelist_Keeping(old, named) ==
    [id \in (IF old = None THEN {} ELSE DOMAIN old) \cup {named[k].id : k \in 1 .. Len(named)} |->
        IF \E k \in 1 .. Len(named) : named[k].id = id
        THEN File(named[CHOOSE k \in 1 .. Len(named) :
                            /\ named[k].id = id
                            /\ \A m \in (k + 1) .. Len(named) : named[m].id # id])
        ELSE old[id]]

\* File.filelist = {f.get("id"): File(f) for f in ...}: a new dict, the last
\* definition of an id winning
BuildFilelist(old, named) ==
    [id \in {named[k].id : k \in 1 .. Len(named)} |->
        File(named[CHOOSE k \in 1 .. Len(named) :
                       /\ named[k].id = id
                       /\ \A m \in (k + 1) .. Len(named) : named[m].id # id])]

\* the constructor raised
LoadFailed(doc, type, message) ==
    [raised |-> type, message |-> message, doc |-> doc.name, parser |-> None,
     filelist |-> None]

\* XmemlParser(filename) on a document that parses: the parser object, or
\* the exception, and the registry the constructor leaves behind
XmemlParserInit(doc, old) ==
    IF ~RootTagOk(doc)
    THEN LoadFailed(doc, "XmemlFileError", "xmeml tag not found. This is not an XMEML file.")
    ELSE LET chosen == ChosenRoot(doc)
         IN IF chosen = "unset"
            THEN LoadFailed(doc, "XmemlFileError", "No sequence found. Nothing to do.")
            ELSE IF doc.enabled # None /\ Upper(Val(doc.enabled)) = "FALSE"
            THEN LoadFailed(doc, "XmemlFileError", "Sequence is not enabled. Nothing to do.")
            ELSE LET sequence == SequenceOf(doc, chosen)
                 IN [raised |-> "", message |-> "", doc |-> doc.name,
                     parser |-> Some([name |-> sequence.id,
                                      root |-> [doc |-> doc.name, chosen |-> chosen,
                                                timebase |-> sequence.timebase,
                                                ntsc |-> sequence.ntsc,
                                                tracks |-> sequence.tracks]]),
                     filelist |-> Some(BuildFilelist(old, NamedFilesUnder(doc, chosen)))]

(***************************************************************************)
(* Loads of several documents in one process, and the enumeration of one   *)
(* of the parsers they made.  A second enumeration reads File.filelist and *)
(* writes nothing the first one reads, so one enumeration is followed.     *)
(***************************************************************************)
\* document A: a <sequence> under the root element, one audio file f1, one clip of it
DocA ==
    [name |-> "A", tag |-> "xmeml", enabled |-> None,
     sequence |-> Some(SequenceEl(Some("s"), None,
                     <<TrackEl(None, <<ClipEl("a", 10, 20, None, Some("f1"), None)>>)>>)),
     project |-> None, bin |-> None,
     files |-> <<FileEl("f1", Some("A.wav"), FALSE, "xmeml"),
                 FileEl("f1", None, FALSE, "xmeml")>>]

\* document B: a <sequence> under project/children; f1 is a video file here,
\* f3 is defined outside project/children
DocB ==
    [name |-> "B", tag |-> "xmeml", enabled |-> None,
     sequence |-> None,
     project |-> Some(SequenceEl(Some("s"), None,
                     <<TrackEl(None, <<ClipEl("b", 10, 20, None, Some("f1"), None)>>)>>)),
     bin |-> None,
     files |-> <<FileEl("f3", Some("B3.wav"), FALSE, "xmeml"),
                 FileEl("f1", Some("B.mov"), TRUE, "project")>>]

\* document C: a <sequence> under project/children/bin/children, with a
\* nested sequence and a clip of the audio file f2
DocC ==
    [name |-> "C", tag |-> "xmeml", enabled |-> None,
     sequence |-> None, project |-> None,
     bin |-> Some(SequenceEl(Some("s"), None,
                     <<TrackEl(None, <<ClipEl("n", 50, 60, None, None,
                                              Some(<<TrackEl(None, NestedItems)>>)),
                                       ClipEl("c", 10, 20, None, Some("f2"), None)>>)>>)),
     files |-> <<FileEl("f4", Some("C4.wav"), FALSE, "project"),
                 FileEl("f2", Some("C.wav"), FALSE, "bin")>>]

\* the documents that are loaded: A, B, C, and A with one thing changed: the
\* root tag, no <sequence> anywhere, a <sequence> in two places, a <sequence>
\* without an id, <enabled> FALSE under the root element, <enabled> FALSE
\* under the <sequence>
LoadDocs ==
    {DocA, DocB, DocC,
     [DocA EXCEPT !.name = "badtag", !.tag = "fcpxml"],
     [DocA EXCEPT !.name = "noseq", !.sequence = None],
     [DocA EXCEPT !.name = "badtag-noseq", !.tag = "fcpxml", !.sequence = None],
     [DocA EXCEPT !.name = "twoseq", !.project = DocB.project],
     [DocA EXCEPT !.name = "noid", !.sequence = Some([Val(DocA.sequence) EXCEPT !.id = None])],
     [DocA EXCEPT !.name = "disabled", !.enabled = Some("FALSE")],
     [DocA EXCEPT !.name = "enabled", !.enabled = Some("TRUE")],
     [DocA EXCEPT !.name = "seqdisabled",
                  !.sequence = Some([Val(DocA.sequence) EXCEPT !.enabled = Some("FALSE")])]}

\* the document of that name
DocNamed(name) == CHOOSE doc \in LoadDocs : doc.name = name

\* a fresh process: File.filelist is the empty dict of the class body
InitLoad ==
    /\ IdleRanges
    /\ IdleAudible
    /\ IdleEnum
    /\ IdleLoad
    /\ IdleScan

\* XmemlParser(doc): when it does not raise it rebinds File.filelist
Load(doc) ==
    /\ loaded' = XmemlParserInit(doc, filelist)
    /\ filelist' = IF loaded'.raised = "" THEN Val(loaded'.filelist) ELSE filelist
    /\ UNCHANGED <<root, onlypureaudio, outer, inner, yielded, log, status,
                   rangesVars, audibleVars, scanVars>>

\* parser.iteraudioclips(opa) on the parser the last load returned: a
\* generator whose body has not started
Iterate(opa) ==
    /\ loaded # None
    /\ loaded.parser # None
    /\ root' = Val(loaded.parser).root
    /\ onlypureaudio' = opa
    /\ outer' = 1
    /\ inner' = 0
    /\ yielded' = <<>>
    /\ log' = <<>>
    /\ status' = "running"
    /\ UNCHANGED <<filelist, loaded, rangesVars, audibleVars, scanVars>>

NextLoad ==
    \/ \E doc \in LoadDocs : Load(doc)
    \/ \E opa \in BOOLEAN : Iterate(opa)
    \/ ConstructClip
    \/ ConstructNestedClip
    \/ Finish

SpecLoad == InitLoad /\ [][NextLoad]_vars

(***************************************************************************)
(* Claims about loading, checked under SpecLoad.                           *)
(***************************************************************************)
\* the document the last load was given
LoadedDoc == DocNamed(loaded.doc)

\* the document has a <sequence> at none of the three places
NoSequence(doc) == doc.sequence = None /\ doc.project = None /\ doc.bin = None

\* the root tag is not the project tag, or there is no <sequence> to find
BadStructure(doc) == doc.tag # "xmeml" \/ NoSequence(doc)

\* C11: loading fails with the structure error (XmemlFileError) whenever the
\* root tag is not xmeml or none of the three places holds a <sequence>; no
\* parser object is made, and no enumeration ever runs on such a document.
C11_BadStructureFails ==
    /\ (loaded # None /\ BadStructure(LoadedDoc)) =>
          /\ loaded.raised = "XmemlFileError"
          /\ loaded.parser = None
    /\ root # None => ~BadStructure(DocNamed(root.doc))

\* C11's case: a document with the right root tag and no <sequence> was
\* rejected while the enumeration of an earlier parser is under way
C11_Witness ==
    /\ loaded # None
    /\ loaded.doc = "noseq"
    /\ loaded.raised = "XmemlFileError"
    /\ status = "running"

\* the <sequence> the loader finds in a document that has one
FoundSequence(doc) ==
    IF doc.sequence # None THEN Val(doc.sequence)
    ELSE IF doc.project # None THEN Val(doc.project)
    ELSE Val(doc.bin)

\* C12: loading a document whose discovered <sequence> has no id fails with
\* the structure error.
C12_NoIdFails ==
    (loaded # None /\ ~BadStructure(LoadedDoc) /\ FoundSequence(LoadedDoc).id = None)
        => loaded.raised = "XmemlFileError"

\* the document says FALSE in the <enabled> of its root element or of its <sequence>
ExplicitlyDisabled(doc) ==
    \/ doc.enabled \in {Some("FALSE"), Some("false")}
    \/ FoundSequence(doc).enabled \in {Some("FALSE"), Some("false")}

\* C13: loading a project whose top-level sequence is explicitly disabled
\* fails, with an error of another kind than the structure error
\* (XmemlFileError) that a bad document gets.
C13_DisabledIsDistinct ==
    (loaded # None /\ ~BadStructure(LoadedDoc) /\ ExplicitlyDisabled(LoadedDoc)) =>
        /\ loaded.raised # ""
        /\ loaded.raised # "XmemlFileError"

\* the ids of the <file> elements with a <name> under the root the loader chose
NamedIds(doc) ==
    {doc.files[k].id : k \in {k \in 1 .. Len(doc.files) :
        /\ doc.files[k].name # None
        /\ \/ doc.sequence # None
           \/ doc.sequence = None /\ doc.project # None
                 /\ doc.files[k].under \in {"project", "bin"}
           \/ doc.sequence = None /\ doc.project = None /\ doc.files[k].under = "bin"}}

\* C14: after every successful load, in any sequence of loads, File.filelist
\* holds exactly the ids of the named <file> definitions under the chosen
\* root of the document just loaded, and none of an earlier document.
C14_RegistryIsOfLastLoad ==
    (loaded # None /\ loaded.raised = "") => DOMAIN filelist = NamedIds(LoadedDoc)

\* C14's case: C was loaded after A, whose parser is being enumerated and
\* whose file f1 is not a file of C
C14_Witness ==
    /\ loaded # None /\ loaded.raised = "" /\ loaded.doc = "C"
    /\ root # None /\ root.doc = "A"
    /\ DOMAIN filelist = {"f2"}

\* the File that the document of the enumerated parser defines for the
\* <file> a clipitem refers to, None if it defines none
OwnFile(ci) ==
    LET doc == DocNamed(root.doc)
        el == ElementOf(ci)
        defs == {k \in 1 .. Len(doc.files) :
                    /\ doc.files[k].name # None
                    /\ el.file # None
                    /\ doc.files[k].id = Val(el.file)
                    /\ doc.files[k].id \in NamedIds(doc)}
    IN IF defs = {} THEN None
       ELSE Some(File(doc.files[CHOOSE k \in defs : \A m \in defs : m <= k]))

\* C15: whatever other documents are loaded before, between and after the
\* steps of an enumeration, every clip enumerated from a parser has the File
\* its own document defines for it.
C15_LoadsAreIndependent ==
    \A k \in 1 .. Len(yielded) : yielded[k].file = OwnFile(yielded[k])

(***************************************************************************)
(* Claims about what the enumeration yields, checked under SpecEnum.       *)
(***************************************************************************)
\* the <track> a yielded ClipItem's element is a child of
TrackOf(ci) ==
    IF Len(ci.tree) = 2 THEN root.tracks[ci.tree[1]]
    ELSE Val(root.tracks[ci.tree[1]].items[ci.tree[2]].nested)[ci.tree[3]]

\* the text says FALSE, in either case
SaysFalse(enabled) == enabled \in {Some("FALSE"), Some("false")}

\* C16: every ClipItem that iteraudioclips yields, a clip of a track or a
\* clip reached through a nested sequence, is enabled and is the child of a
\* track that is not explicitly disabled.
C16_YieldedAreEnabled ==
    \A k \in 1 .. Len(yielded) :
        /\ ~SaysFalse(ElementOf(yielded[k]).enabled)
        /\ ~SaysFalse(TrackOf(yielded[k]).enabled)

\* C17: a clip of a nested sequence without a valid file reference is never
\* yielded, with onlypureaudio true or false, and the walk goes on.
C17_NestedWithoutFileSkipped ==
    \A k \in 1 .. Len(yielded) :
        Len(yielded[k].tree) = 4 =>
            /\ ElementOf(yielded[k]).file # None
            /\ Val(ElementOf(yielded[k]).file) \in DOMAIN filelist

(***************************************************************************)
(* Claims about a framerate that cannot be resolved, checked under         *)
(* SpecAudible.                                                            *)
(***************************************************************************)
\* the last call was made on an audio clip with a File whose framerate comes
\* from a timebase that is not in getframerate's table
UnresolvedCall ==
    /\ called # None
    /\ called.mediatype = "audio"
    /\ called.file # None
    /\ IF Val(called.file).mediatype = "audio"
       THEN called.sequenceframerate = None
       ELSE called.timebase = Some(29)

\* C18: for a timebase that is not recognized getframerate returns None
\* without raising, and audibleframes on a clip whose framerate is
\* unresolved in that way does not raise: it returns None or an empty Ranges.
C18_UnresolvedFramerate ==
    /\ getframerate(Some(29), FALSE) = None
    /\ UnresolvedCall =>
          /\ result.kind # "raise"
          /\ result.kind = "Ranges" => result.r = <<>>

(***************************************************************************)
(* XmemlParser.audibleranges: the loop over iteraudioclips() and its body. *)
(***************************************************************************)
\* the default of the threshold argument: 0.0001
AUDIOTHRESHOLD == 1

\* an addition that keeps the ranges of other and drops its own
RangesAdd_Overwrite(rs, other, i) == other

RECURSIVE RangesAdd(_, _, _)
\* Ranges.__add__: self.extend(range) for every range of other.r, from the i-th on
RangesAdd(rs, other, i) ==
    IF i > Len(other) THEN rs
    ELSE RangesAdd(RangesExtend(rs, other[i]).r, other, i + 1)

\* what audibleranges keeps of a value that audibleframes returned
Kept(res) == [kind |-> res.kind, r |-> res.r, framerate |-> res.framerate]

\* d[key] = value on a dict
DictSet(d, key, value) == [k \in DOMAIN d \cup {key} |-> IF k = key THEN value ELSE d[k]]

\* the generator is suspended at a yield whose clip the loop body has not seen
Pending == folded < Len(yielded)

\* the body of the for loop on the clip just yielded: audibleframes, then
\* clips[name] += or =, then files.update
Body ==
    /\ scan = "running"
    /\ Pending
    /\ LET ci == yielded[folded + 1]
           res == audibleframes(ci, threshold, python).result
       IN IF res.kind = "raise"
          THEN scan' = "raised" /\ UNCHANGED <<clips, files, folded>>
          ELSE IF ci.name \in DOMAIN clips /\ (clips[ci.name].kind = "None" \/ res.kind = "None")
          THEN \* None += x is a TypeError, Ranges.__add__(None) an AttributeError
               scan' = "raised" /\ UNCHANGED <<clips, files, folded>>
          ELSE /\ clips' = IF ci.name \in DOMAIN clips
                           THEN [clips EXCEPT ![ci.name].r = RangesAdd(@, res.r, 1)]
                           ELSE DictSet(clips, ci.name, Kept(res))
               /\ files' = DictSet(files, ci.name, ci.file)
               /\ folded' = folded + 1
               /\ scan' = scan
    /\ UNCHANGED <<rangesVars, audibleVars, enumVars, loadVars>>

\* the generator hands the loop its next clip, or ends, or lets an exception out
Resume ==
    /\ scan = "running"
    /\ ~Pending
    /\ ConstructClip \/ ConstructNestedClip \/ Finish

\* an exception that left the generator leaves audibleranges as well
Propagate ==
    /\ scan = "running"
    /\ status = "raised"
    /\ scan' = "raised"
    /\ UNCHANGED <<clips, files, folded, rangesVars, audibleVars, enumVars, loadVars>>

\* the generator is exhausted: return clips, files
Return ==
    /\ scan = "running"
    /\ status = "done"
    /\ ~Pending
    /\ scan' = "returned"
    /\ UNCHANGED <<clips, files, folded, rangesVars, audibleVars, enumVars, loadVars>>

(***************************************************************************)
(* The documents audibleranges is run on: one audio track of a 25 fps      *)
(* sequence, f1 an audio file.                                             *)
(***************************************************************************)
\* an audiolevels effect with keyframes that give two audible stretches
TwoStretches ==
    Effect("Level", "audiolevels", TRUE, TRUE, Some(5000),
           <<<<0, 10000>>, <<2, 0>>, <<3, 10000>>>>)

\* the clips of the track: three clips named "a" (no effect; a level of 1.0,
\* later on the timeline; keyframes), a clip with both endpoints at -1, a
\* clip on a video source track, a clip whose audiolevels effect has no
\* <parameter>, a nested sequence without an <audio> subtree, a clip without
\* a <file>, and a nested sequence with three clips
ScanItems ==
    {ClipEl("a", 10, 20, None, Some("f1"), None),
     [ClipEl("a", 15, 25, None, Some("f1"), None) EXCEPT
         !.effects = <<Effect("Level", "audiolevels", TRUE, TRUE, Some(10000), <<>>)>>],
     [ClipEl("a", 30, 40, None, Some("f1"), None) EXCEPT !.effects = <<TwoStretches>>],
     ClipEl("b", -1, -1, None, Some("f1"), None),
     [ClipEl("v", 10, 20, None, Some("f1"), None) EXCEPT !.mediatype = Some("video")],
     [ClipEl("p", 10, 20, None, Some("f1"), None) EXCEPT
         !.effects = <<Effect("Level", "audiolevels", TRUE, FALSE, None, <<>>)>>],
     [ClipEl("s", 50, 60, None, None, Some(<<>>)) EXCEPT !.nestedaudio = FALSE],
     ClipEl("m", 10, 20, None, None, None),
     ClipEl("n", 50, 60, None, None, Some(<<TrackEl(None, NestedItems)>>))}

ScanDocuments ==
    {[timebase |-> 25, ntsc |-> "FALSE", tracks |-> <<TrackEl(None, items)>>] :
        items \in UNION {[1 .. n -> ScanItems] : n \in 0 .. MaxItems}}

\* a parser has loaded a document; parser.audibleranges() is about to run
\* its loop over self.iteraudioclips()
InitScan ==
    /\ root \in ScanDocuments
    /\ filelist = Registry
    /\ onlypureaudio = TRUE
    /\ outer = 1
    /\ inner = 0
    /\ yielded = <<>>
    /\ log = <<>>
    /\ status = "running"
    /\ python \in {2, 3}
    /\ clip = None
    /\ called = None
    /\ threshold = NumberThreshold(AUDIOTHRESHOLD)
    /\ vols = <<>>
    /\ result = None
    /\ clips = <<>>
    /\ files = <<>>
    /\ folded = 0
    /\ scan = "running"
    /\ IdleRanges
    /\ IdleLoad

NextScan == Resume \/ Body \/ Propagate \/ Return

SpecScan == InitScan /\ [][NextScan]_vars

(***************************************************************************)
(* Claims about audibleranges, checked under SpecScan.                     *)
(***************************************************************************)
\* C19: once a document is loaded the whole-project scan always completes:
\* no anomaly of a single clip (no file, an endpoint left at -1, a source
\* track that is not audio, a nested sequence without an audio subtree, a
\* levels effect without parameters) raises out of audibleranges.
C19_ScanCompletes == scan # "raised"

\* the frames that the members of a Ranges cover
FramesOfRanges(rs) == UNION {FramesOf(rs[i]) : i \in 1 .. Len(rs)}

\* the enumerated clips of that name
Named(name) == {k \in 1 .. Len(yielded) : yielded[k].name = name}

\* what audibleframes returns for the k-th enumerated clip
AudibleOf(k) == audibleframes(yielded[k], threshold, python).result

\* C20: audibleranges returns two dicts with the same keys, the names of the
\* enumerated clips; the Ranges under a name covers exactly the frames of the
\* audible ranges of the enumerated clips of that name, and the File under a
\* name is the File of one of them.
C20_MergedByName ==
    scan = "returned" =>
        /\ DOMAIN clips = {yielded[k].name : k \in 1 .. Len(yielded)}
        /\ DOMAIN files = DOMAIN clips
        /\ \A name \in DOMAIN clips :
              /\ FramesOfRanges(clips[name].r)
                    = UNION {FramesOfRanges(AudibleOf(k).r) : k \in Named(name)}
              /\ \E k \in Named(name) : files[name] = yielded[k].file

\* C20's case: the three clips named "a" were enumerated and their ranges
\* (10,20), (15,25) and (30,32), (33,35) are merged under the one name
C20_Witness ==
    /\ scan = "returned"
    /\ Cardinality(Named("a")) = 3
    /\ \E k \in Named("a") : Len(AudibleOf(k).r) = 2
    /\ FramesOfRanges(clips["a"].r) = (10 .. 24) \cup {30, 31, 33, 34}
    /\ Len(clips["a"].r) = 3

(***************************************************************************)
(* ClipItem.__init__ on clips with reversed <in>/<out> and with a start or *)
(* an end of -1 next to transitions: the enumeration run on tracks made of *)
(* such clips.                                                             *)
(***************************************************************************)
\* a <clipitem> of the audio file f1 with the given <in> and <out>
ClipElInOut(name, start, end, inpoint, outpoint) ==
    [ClipEl(name, start, end, None, Some("f1"), None) EXCEPT !.in = inpoint, !.out = outpoint]

\* the clips of the nested sequence: a transition and a reversed clip whose
\* start is -1
ConstructNestedItems ==
    <<TransitionEl(4, 8), TransitionEl(20, 30), ClipElInOut("i", -1, 40, 5, 0)>>

\* the children a track is made of: a clip as written, a reversed clip, a
\* clip with <in> equal to <out> and its start at -1, a reversed clip with its
\* end at -1, a clip with both at -1, two transitions with centerframes 6 and
\* 25, a transition without an <effect>, a nested sequence
ConstructItems ==
    {ClipElInOut("a", 10, 20, 0, 5),
     ClipElInOut("r", 10, 20, 200, 100),
     ClipElInOut("z", -1, 30, 100, 100),
     ClipElInOut("e", 2, -1, 5, 0),
     ClipElInOut("b", -1, -1, 0, 5),
     TransitionEl(4, 8),
     TransitionEl(20, 30),
     TransitionElWith(12, 16, <<>>),
     ClipEl("n", 50, 60, None, None, Some(<<TrackEl(None, ConstructNestedItems)>>))}

\* the documents: one track of up to MaxItems children
ConstructDocuments ==
    {[timebase |-> 25, ntsc |-> "FALSE", tracks |-> <<TrackEl(None, items)>>] :
        items \in UNION {[1 .. n -> ConstructItems] : n \in 0 .. MaxItems}}

\* XmemlParser(filename) has parsed one of these documents;
\* parser.iteraudioclips(onlypureaudio) is about to run
InitConstruct ==
    /\ root \in ConstructDocuments
    /\ filelist = Registry
    /\ onlypureaudio \in BOOLEAN
    /\ outer = 1
    /\ inner = 0
    /\ yielded = <<>>
    /\ log = <<>>
    /\ status = "running"
    /\ IdleRanges
    /\ IdleAudible
    /\ IdleLoad
    /\ IdleScan

SpecConstruct == InitConstruct /\ [][NextEnum]_vars

\* C21: every ClipItem has inpoint <= outpoint and duration = outpoint -
\* inpoint >= 0; an <in> greater than <out> gives inpoint = <out> and
\* outpoint = <in>, and an <in> not greater than <out> is kept as written.
C21_InOutNormalised ==
    \A k \in 1 .. Len(yielded) :
        LET ci == yielded[k]
            el == ElementOf(ci)
        IN /\ ci.inpoint <= ci.outpoint
           /\ ci.duration = ci.outpoint - ci.inpoint
           /\ ci.duration >= 0
           /\ el.in > el.out => (ci.inpoint = el.out /\ ci.outpoint = el.in)
           /\ el.in <= el.out => (ci.inpoint = el.in /\ ci.outpoint = el.out)

\* C21's case: a clip written with in = 200 and out = 100 has been
\* constructed with inpoint 100 and outpoint 200
C21_Witness ==
    \E k \in 1 .. Len(yielded) :
        /\ ElementOf(yielded[k]).in = 200 /\ ElementOf(yielded[k]).out = 100
        /\ yielded[k].inpoint = 100 /\ yielded[k].outpoint = 200
        /\ yielded[k].duration = 100

\* the centerframe of a transitionitem element, start + (end - start) / 2
CenterOf(el) == el.start + ((el.end - el.start) \div 2)

\* the sibling transitionitems before and after the place i
TransitionsBefore(siblings, i) == {j \in 1 .. (i - 1) : siblings[j].tag = "transitionitem"}
TransitionsAfter(siblings, i) ==
    {j \in (i + 1) .. Len(siblings) : siblings[j].tag = "transitionitem"}

\* C22: a ClipItem whose <start> is -1 and that has a transitionitem among
\* its preceding siblings has the centerframe of the nearest of them as its
\* start, one whose <end> is -1 and that has a transitionitem among its
\* following siblings has the centerframe of the nearest of them as its end,
\* and a <start> or <end> other than -1 is the ClipItem's start or end.
C22_NearestCenterframe ==
    \A k \in 1 .. Len(yielded) :
        LET ci == yielded[k]
            el == ElementOf(ci)
            siblings == SiblingsOf(ci)
            i == ci.tree[Len(ci.tree)]
        IN /\ el.start # -1 => ci.start = el.start
           /\ el.end # -1 => ci.end = el.end
           /\ (el.start = -1 /\ TransitionsBefore(siblings, i) # {}) =>
                 \E j \in TransitionsBefore(siblings, i) :
                     /\ \A m \in TransitionsBefore(siblings, i) : m <= j
                     /\ ci.start = CenterOf(siblings[j])
           /\ (el.end = -1 /\ TransitionsAfter(siblings, i) # {}) =>
                 \E j \in TransitionsAfter(siblings, i) :
                     /\ \A m \in TransitionsAfter(siblings, i) : j <= m
                     /\ ci.end = CenterOf(siblings[j])

\* C22's case: a clip with <start> -1 after two transitions with different
\* centerframes has the centerframe of the nearer one as its start
C22_Witness ==
    \E k \in 1 .. Len(yielded) :
        LET ci == yielded[k]
            siblings == SiblingsOf(ci)
            i == ci.tree[Len(ci.tree)]
        IN /\ ElementOf(ci).start = -1
           /\ \E j, m \in TransitionsBefore(siblings, i) :
                 /\ m < j
                 /\ CenterOf(siblings[m]) # CenterOf(siblings[j])
                 /\ \A n \in TransitionsBefore(siblings, i) : n <= j
                 /\ ci.start = CenterOf(siblings[j])

(***************************************************************************)
(* Claims about the inpoint and outpoint keyframes audibleframes adds to   *)
(* the keyframelist, checked under SpecAudible.                            *)
(***************************************************************************)
\* the keyframes the effect gave to the last call, and the list the call walked
GivenKeyframes == CalledLevels.parameters
PaddedKeyframes == result.keyframelist

\* the last call took the keyframe branch and returned
KeyframesReturned == KeyframeCall /\ result.kind = "Ranges"

\* the positions of the keyframes of a list
PositionsOf(kfl) == {kfl[i][1] : i \in 1 .. Len(kfl)}

\* the call had to add a keyframe at the outpoint: there was none at the
\* outpoint, neither among the given ones nor the one added at the inpoint
OutpointAdded ==
    /\ KeyframesReturned
    /\ called.outpoint \notin PositionsOf(GivenKeyframes)
    /\ called.outpoint # called.inpoint

\* C23: a keyframe added at an outpoint that falls strictly between two
\* keyframes carries the value of the keyframe before it, and a keyframe
\* added at an outpoint after the last keyframe carries the value of the last
\* keyframe.
C23_OutpointCarriesPrevious ==
    OutpointAdded =>
        \E j \in 2 .. Len(PaddedKeyframes) :
            /\ PaddedKeyframes[j][1] = called.outpoint
            /\ PaddedKeyframes[j][2] = PaddedKeyframes[j - 1][2]

\* the keyframes of the walked list that stand at a position of a given keyframe
Originals == SelectSeq(PaddedKeyframes, LAMBDA k : k[1] \in PositionsOf(GivenKeyframes))

\* C24: the walked list has exactly one keyframe at the inpoint; if the
\* first given keyframe lies after the inpoint it is a new first keyframe with
\* the first keyframe's value; if the inpoint falls strictly between two given
\* keyframes it is a new keyframe with the value of the later of the two, and
\* the list is still sorted by position; if a given keyframe is at the inpoint
\* it is that keyframe; the given keyframes are all there, in their order and
\* with their values.
C24_InpointKeyframe ==
    KeyframesReturned =>
        LET given == GivenKeyframes
            padded == PaddedKeyframes
            inpoint == called.inpoint
        IN /\ Cardinality({j \in 1 .. Len(padded) : padded[j][1] = inpoint}) = 1
           /\ inpoint < given[1][1] => padded[1] = <<inpoint, given[1][2]>>
           /\ \A i \in 1 .. (Len(given) - 1) :
                 (given[i][1] < inpoint /\ inpoint < given[i + 1][1]) =>
                     \E j \in 1 .. Len(padded) : padded[j] = <<inpoint, given[i + 1][2]>>
           /\ \A j \in 1 .. (Len(padded) - 1) : padded[j][1] < padded[j + 1][1]
           /\ Originals = given

\* C24's case: the inpoint fell strictly between two keyframes of different
\* values, and the walked list has it with the value of the later one
C24_Witness ==
    /\ KeyframesReturned
    /\ \E i \in 1 .. (Len(GivenKeyframes) - 1) :
          /\ GivenKeyframes[i][1] < called.inpoint
          /\ called.inpoint < GivenKeyframes[i + 1][1]
          /\ GivenKeyframes[i][2] # GivenKeyframes[i + 1][2]
          /\ \E j \in 2 .. Len(PaddedKeyframes) :
                /\ PaddedKeyframes[j] = <<called.inpoint, GivenKeyframes[i + 1][2]>>
                /\ PaddedKeyframes[j - 1] = GivenKeyframes[i]

\* the indices the loop that adds the outpoint used in the last call
OutpointReads ==
    AddOutpoint(AddInpoint(GivenKeyframes, called.inpoint), called.outpoint).reads

\* C25: for keyframes at strictly increasing positions and inpoint <=
\* outpoint, the loop that adds the inpoint and the loop that adds the
\* outpoint end without an IndexError leaving audibleframes, and the second
\* loop uses no index below 0.
C25_ClampingLoopsEnd ==
    KeyframeCall =>
        /\ result.kind = "Ranges"
        /\ result.error # "IndexError"
        /\ \A i \in OutpointReads : i >= 0

\* C25's case: both loops had work to do: the call added a keyframe at the
\* inpoint and one at the outpoint, and the second loop went down to index 0
C25_Witness ==
    /\ KeyframesReturned
    /\ Len(PaddedKeyframes) = Len(GivenKeyframes) + 2
    /\ {0, 1} \subseteq OutpointReads

\* the ranges the last call returned are inside the clip, none ends before
\* it starts, each ends before the next one starts, and there is one for
\* every place of the walked list where the level comes up to the threshold
RangesInsideClip ==
    /\ \A k \in 1 .. Len(result.r) :
          /\ called.start <= result.r[k][1]
          /\ result.r[k][1] <= result.r[k][2]
          /\ result.r[k][2] <= called.start + (called.outpoint - called.inpoint)
    /\ \A k \in 1 .. (Len(result.r) - 1) : result.r[k][2] < result.r[k + 1][1]
    /\ Len(result.r) = Cardinality(Opens(WalkedKeyframes, Val(Th)))

\* for keyframes at strictly increasing positions, every Range of one call
\* has clip.start <= start < end <= clip.start + (outpoint - inpoint), and the
\* ranges are pairwise disjoint, ascending and unmerged
C26_RangesNotEmpty ==
    KeyframesReturned =>
        /\ RangesInsideClip
        /\ \A k \in 1 .. Len(result.r) : result.r[k][1] < result.r[k][2]

\* C26: for keyframes at strictly increasing positions, every Range of one
\* call has clip.start <= start <= end <= clip.start + (outpoint - inpoint);
\* the ranges are pairwise disjoint and ascending, each ending before the
\* next one starts, and none is merged with another; a Range with start = end
\* is returned when the level comes up to the threshold at the last keyframe
\* of the window.
C26_RangesWithinClip ==
    KeyframesReturned =>
        /\ RangesInsideClip
        /\ \A k \in 1 .. Len(result.r) :
              result.r[k][1] = result.r[k][2] =>
                  /\ k = Len(result.r)
                  /\ result.r[k][2] =
                         called.start + (WalkedKeyframes[Len(WalkedKeyframes)][1] - called.inpoint)

\* C26's case: a call that returned two ranges, the second of length zero
C26_Witness ==
    /\ KeyframesReturned
    /\ Len(result.r) = 2
    /\ result.r[1][1] < result.r[1][2]
    /\ result.r[2][1] = result.r[2][2]

(***************************************************************************)
(* Coverage of the Ranges collection, checked under SpecRanges.            *)
(***************************************************************************)
\* C27: after any sequence of extend calls every frame of every interval
\* that was inserted is covered by some member; a call never makes the number
\* of members smaller, and never makes the start of a member larger or its end
\* smaller.
C27_CoverageKept ==
    /\ \A f \in covered : \E i \in 1 .. Len(r) : f \in FramesOf(r[i])
    /\ ncalls > 0 => \E i \in 1 .. Len(r) : r[i][1] <= arg[1] /\ arg[2] <= r[i][2]
    /\ Len(r) >= Len(before)
    /\ \A i \in 1 .. Len(before) : r[i][1] <= before[i][1] /\ before[i][2] <= r[i][2]

\* C27's case: the last call made a member grow at both ends, in a
\* collection of several members that cover every frame inserted so far
C27_Witness ==
    /\ ncalls > 2
    /\ Len(r) > 1
    /\ Len(r) = Len(before)
    /\ \E i \in 1 .. Len(before) : r[i][1] < before[i][1] /\ before[i][2] < r[i][2]
    /\ \A f \in covered : \E i \in 1 .. Len(r) : f \in FramesOf(r[i])

====
